---- MODULE Spec2Model ----
(***************************************************************************)
(* Model of PolyglotInteropClient (src/meta/interop/client.py): the duplex *)
(* (WebSocket) call correlation, the receive loop, reconnection and the    *)
(* client's lifecycle, as the asyncio tasks the code creates.              *)
(*                                                                         *)
(* One action is one uninterrupted run of a task between two suspension    *)
(* points (await) of the code.                                             *)
(***************************************************************************)
EXTENDS Integers, Sequences, FiniteSets, TLC

\* ------------------------------------------------------------------ bounds
NumCalls == 2       \* caller tasks, each issuing one send_websocket
NumIds   == 2       \* distinct values message_id can take
NumVals  == 2       \* distinct payloads a frame field can carry
MaxConns == 2       \* duplex connections opened over the client's life
NumRpc   == 2       \* caller tasks, each issuing one call (POST /rpc)
NumSubs  == 2       \* subscribe() invocations

Calls  == 1..NumCalls
Ids    == 1..NumIds
Values == 1..NumVals
Conns  == 1..MaxConns
Rpcs   == 1..NumRpc
Subs   == 1..NumSubs

Missing == 0        \* a frame field that is absent (dict has no such key)
None    == 0        \* Python None for self.websocket / an absent dict key

VARIABLES
    auto_register,      \* InteropConfig.auto_register
    session,            \* self.session: "None" | "open"
    registered,         \* the broker's registry holds this module
    websocket,          \* self.websocket: None (0) or the connection held
    nConns,             \* connections opened so far (websockets.connect)
    conn,               \* conn[k]: "unused" | "open" | "closed_ok" | "closed_err"
    lst,                \* lst[k]: the _websocket_listener task created with connection k
    msg,                \* the inbound frame the receive loop yields next
    message_handlers,   \* self.message_handlers: id -> caller whose future.set_result is stored
    pc,                 \* pc[c]: where caller c's send_websocket is
    callId,             \* callId[c]: message_id of caller c's call
    future,             \* future[c]: the asyncio.Future of caller c's call
    wire,               \* wire[k]: identifiers of the call frames written to connection k
    initPc,             \* where init() is
    closePc,            \* where close() is
    deleteSent,         \* DELETE /register requests sent to the broker
    unregPc,            \* where the application's own unregister() call is
    rpcPc,              \* rpcPc[r]: where caller r's call() is
    rpcSent,            \* rpcSent[r]: POST /rpc requests sent for caller r's call
    rpcReply,           \* rpcReply[r]: the outcome of the request of caller r
    rpcValue,           \* rpcValue[r]: what call() returned to caller r
    subPc,              \* subPc[s]: where the s-th subscribe() and its send task are
    subConn,            \* subConn[s]: the connection the s-th send coroutine is bound to
    subs                \* subs[k]: subscribe frames written to connection k

vars == <<auto_register, session, registered, websocket, nConns, conn, lst, msg,
          message_handlers, pc, callId, future, wire, initPc, closePc,
          deleteSent, unregPc, rpcPc, rpcSent, rpcReply, rpcValue, subPc, subConn, subs>>

clientVars == <<auto_register, session, registered, initPc, closePc>>
callVars   == <<message_handlers, pc, callId, future, wire>>
connVars   == <<websocket, nConns, conn, lst>>
httpVars   == <<deleteSent, unregPc, rpcPc, rpcSent, rpcReply, rpcValue>>
subVars    == <<subPc, subConn, subs>>

\* ------------------------------------------------------------------ frames
NoMsg == [conn |-> 0, kind |-> "none", type |-> "none", id |-> 0, payload |-> Missing]

\* What the server can put on connection k: text that is not JSON, JSON that is
\* not an object, and objects of each type with their field present or absent.
\* A response or error frame names a call the server was sent on k.
FramesOn(k) ==
    {[conn |-> k, kind |-> "text", type |-> "none", id |-> 0, payload |-> Missing],
     [conn |-> k, kind |-> "nonobj", type |-> "none", id |-> 0, payload |-> Missing],
     [conn |-> k, kind |-> "obj", type |-> "other", id |-> 0, payload |-> Missing]}
    \cup {[conn |-> k, kind |-> "obj", type |-> "modules", id |-> 0, payload |-> p] :
            p \in {Missing, 1}}
    \cup {[conn |-> k, kind |-> "obj", type |-> "response", id |-> i, payload |-> p] :
            i \in wire[k], p \in Values \cup {Missing}}
    \cup {[conn |-> k, kind |-> "obj", type |-> "error", id |-> i, payload |-> p] :
            i \in wire[k], p \in {Missing, 1}}

\* ------------------------------------------------------------------ futures
NoFuture  == [st |-> "none", val |-> 0]
Pending   == [st |-> "pending", val |-> 0]
Cancelled == [st |-> "cancelled", val |-> 0]
Done(v)   == [st |-> "done", val |-> v]

\* ------------------------------------------------------------------ replies
\* No request of the caller has been answered yet
NoReply == [status |-> 0, result |-> Missing]

\* What can come back for a POST /rpc: a 200 reply whose body carries a result
\* or lacks one,
\* a non-success reply (its body is not read), or no reply at all (status 0
\* with the failure flagged: refused connection, DNS, TLS, session closed)
Replies ==
    {[status |-> 200, result |-> v] : v \in Values \cup {Missing}}
    \cup {[status |-> 500, result |-> Missing]}
    \cup {[status |-> -1, result |-> Missing]}

\* ------------------------------------------------------------------ Init
Init ==
    /\ auto_register \in BOOLEAN
    /\ session = "None"
    /\ registered = FALSE
    /\ websocket = None
    /\ nConns = 0
    /\ conn = [k \in Conns |-> "unused"]
    /\ lst = [k \in Conns |-> "none"]
    /\ msg = NoMsg
    /\ message_handlers = [i \in Ids |-> None]
    /\ pc = [c \in Calls |-> "idle"]
    /\ callId = [c \in Calls |-> 0]
    /\ future = [c \in Calls |-> NoFuture]
    /\ wire = [k \in Conns |-> {}]
    /\ initPc = "idle"
    /\ closePc = "idle"
    /\ deleteSent = 0
    /\ unregPc = "idle"
    /\ rpcPc = [r \in Rpcs |-> "idle"]
    /\ rpcSent = [r \in Rpcs |-> 0]
    /\ rpcReply = [r \in Rpcs |-> NoReply]
    /\ rpcValue = [r \in Rpcs |-> Missing]
    /\ subPc = [x \in Subs |-> "idle"]
    /\ subConn = [x \in Subs |-> None]
    /\ subs = [k \in Conns |-> 0]

\* ------------------------------------------------------------------ dict and future primitives
\* dict.__contains__ on self.message_handlers (line 266)
HasHandler(h, i) == i \in Ids /\ h[i] # None

\* self.message_handlers[message_id] = future.set_result (line 288): an
\* assignment, so an entry already under that key is replaced
StoreHandler(h, i, c) == [h EXCEPT ![i] = c]

\* self.message_handlers.pop(message_id) (line 267)
PopHandler(h, i) == [h EXCEPT ![i] = None]

\* A send_websocket that forgets to remove its identifier on timeout
PopHandlerForgotten(h, i) == h

\* self.message_handlers.pop(message_id, None) (line 304): no error when absent
PopHandlerDefault(h, i) == IF i \in Ids THEN [h EXCEPT ![i] = None] ELSE h

\* A handler that is passed the frame's identifier instead of its result
ResultOfWrongField(m) == IF m.payload = Missing THEN Missing ELSE m.id

\* message["result"] (line 268)
ResultOf(m) == m.payload

\* Future.set_result is only legal on a pending future; on a cancelled or
\* finished one it raises InvalidStateError
CanSetResult(f) == f.st = "pending"

\* ------------------------------------------------------------------ connect_websocket
\* A connect_websocket that keeps a connection object it already holds and
\* stores the new connection only when there was none
ConnectOkKeepsOld ==
    /\ nConns < MaxConns
    /\ nConns' = nConns + 1
    /\ conn' = [conn EXCEPT ![nConns + 1] = "open"]
    /\ websocket' = IF websocket = None THEN nConns + 1 ELSE websocket

\* websockets.connect succeeded: the new connection is stored in self.websocket
\* and a listener task is created for it (lines 227-231)
ConnectOk ==
    /\ nConns < MaxConns
    /\ nConns' = nConns + 1
    /\ conn' = [conn EXCEPT ![nConns + 1] = "open"]
    /\ websocket' = nConns + 1

\* ------------------------------------------------------------------ init
\* init up to its first await (lines 68-73)
InitStart ==
    /\ initPc = "idle"
    /\ session' = "open"
    /\ initPc' = IF auto_register THEN "registering" ELSE "connecting"
    /\ UNCHANGED <<auto_register, registered, closePc, msg>>
    /\ UNCHANGED callVars
    /\ UNCHANGED connVars
    /\ UNCHANGED httpVars
    /\ UNCHANGED subVars

\* register: the broker answers 200 (lines 78-91)
RegisterOk ==
    /\ initPc = "registering"
    /\ registered' = TRUE
    /\ initPc' = "connecting"
    /\ UNCHANGED <<auto_register, session, closePc, msg>>
    /\ UNCHANGED callVars
    /\ UNCHANGED connVars
    /\ UNCHANGED httpVars
    /\ UNCHANGED subVars

\* register: another status or a network failure is re-raised out of init
\* (lines 87-88, 93-95)
RegisterFail ==
    /\ initPc = "registering"
    /\ initPc' = "raised"
    /\ UNCHANGED <<auto_register, session, registered, closePc, msg>>
    /\ UNCHANGED callVars
    /\ UNCHANGED connVars
    /\ UNCHANGED httpVars
    /\ UNCHANGED subVars

\* init's connect_websocket: the handshake completes (lines 227-231)
InitConnectOk ==
    /\ initPc = "connecting"
    /\ ConnectOk
    /\ lst' = [lst EXCEPT ![nConns + 1] = "created"]
    /\ initPc' = "done"
    /\ UNCHANGED <<auto_register, session, registered, closePc, msg>>
    /\ UNCHANGED callVars
    /\ UNCHANGED httpVars
    /\ UNCHANGED subVars

\* init's connect_websocket: the handshake fails, the exception is printed and
\* swallowed (lines 233-234), and init returns normally
InitConnectFail ==
    /\ initPc = "connecting"
    /\ initPc' = "done"
    /\ UNCHANGED <<auto_register, session, registered, closePc, msg>>
    /\ UNCHANGED callVars
    /\ UNCHANGED connVars
    /\ UNCHANGED httpVars
    /\ UNCHANGED subVars

\* ------------------------------------------------------------------ the server and the network
\* The server sends a frame on connection k; it waits in the connection's
\* receive queue until the receive loop takes it
ServerSend(k, f) ==
    /\ conn[k] = "open"
    /\ lst[k] \in {"created", "reading"}
    /\ msg = NoMsg
    /\ f \in FramesOn(k)
    /\ msg' = f
    /\ UNCHANGED clientVars
    /\ UNCHANGED callVars
    /\ UNCHANGED connVars
    /\ UNCHANGED httpVars
    /\ UNCHANGED subVars

\* The server closes connection k with a normal close code: the connection's
\* async iterator then ends without raising (ConnectionClosedOK)
ServerCloses(k) ==
    /\ conn[k] = "open"
    /\ conn' = [conn EXCEPT ![k] = "closed_ok"]
    /\ UNCHANGED <<websocket, nConns, lst, msg>>
    /\ UNCHANGED clientVars
    /\ UNCHANGED callVars
    /\ UNCHANGED httpVars
    /\ UNCHANGED subVars

\* Connection k is lost (error, EOF without a close frame): the connection's
\* async iterator then raises ConnectionClosed
ChannelFails(k) ==
    /\ conn[k] = "open"
    /\ conn' = [conn EXCEPT ![k] = "closed_err"]
    /\ UNCHANGED <<websocket, nConns, lst, msg>>
    /\ UNCHANGED clientVars
    /\ UNCHANGED callVars
    /\ UNCHANGED httpVars
    /\ UNCHANGED subVars

\* A dispatch that does not look at the frame's type: any frame carrying a
\* registered identifier is treated as a response
MatchesAnyType(m, h) == m.kind = "obj" /\ HasHandler(h, m.id)

\* ------------------------------------------------------------------ _handle_websocket_message
\* The frame is a response whose id is a key of message_handlers (lines 264-266)
Matches(m, h) == m.kind = "obj" /\ m.type = "response" /\ HasHandler(h, m.id)

\* Handling frame m raises an exception that the listener's inner try does not
\* catch: .get on a non-dict (line 259), a missing key (lines 262, 268, 271),
\* set_result on a future that is no longer pending (line 268). Unparsable text
\* raises JSONDecodeError, which the inner try catches (lines 246-247).
Raises(m, h, fut) ==
    \/ m.kind = "nonobj"
    \/ m.kind = "obj" /\ m.type = "modules" /\ m.payload = Missing
    \/ m.kind = "obj" /\ m.type = "error" /\ m.payload = Missing
    \/ Matches(m, h) /\ ResultOf(m) = Missing
    \/ Matches(m, h) /\ ResultOf(m) # Missing /\ ~CanSetResult(fut[h[m.id]])

\* message_handlers after handling m: only a matching response pops (line 267)
HandlersAfter(m, h) == IF Matches(m, h) THEN PopHandler(h, m.id) ELSE h

\* the futures after handling m: handler(message["result"]) (line 268)
FuturesAfter(m, h, fut) ==
    IF Matches(m, h) /\ ResultOf(m) # Missing /\ CanSetResult(fut[h[m.id]])
    THEN [fut EXCEPT ![h[m.id]] = Done(ResultOf(m))]
    ELSE fut

\* ------------------------------------------------------------------ _websocket_listener
\* The listener task's first step (lines 238-242): it returns when there is no
\* connection, and otherwise iterates over self.websocket
ListenerStart(k) ==
    /\ lst[k] = "created"
    /\ lst' = [lst EXCEPT ![k] = IF websocket = None THEN "no_socket" ELSE "reading"]
    /\ UNCHANGED <<websocket, nConns, conn, msg>>
    /\ UNCHANGED clientVars
    /\ UNCHANGED callVars
    /\ UNCHANGED httpVars
    /\ UNCHANGED subVars

\* One turn of the receive loop (lines 242-247, 254-255): json.loads, then
\* _handle_websocket_message; an exception other than JSONDecodeError leaves the
\* loop through "except Exception" and the task ends
HandleFrame(k) ==
    /\ lst[k] = "reading"
    /\ msg # NoMsg
    /\ msg.conn = k
    /\ message_handlers' = HandlersAfter(msg, message_handlers)
    /\ future' = FuturesAfter(msg, message_handlers, future)
    /\ lst' = [lst EXCEPT ![k] = IF Raises(msg, message_handlers, future)
                                 THEN "crashed" ELSE "reading"]
    /\ msg' = NoMsg
    /\ UNCHANGED <<websocket, nConns, conn, pc, callId, wire>>
    /\ UNCHANGED clientVars
    /\ UNCHANGED httpVars
    /\ UNCHANGED subVars

\* The connection was closed normally and its queue is drained: the async for
\* ends and the task returns, without reconnecting
ListenerEnds(k) ==
    /\ lst[k] = "reading"
    /\ conn[k] = "closed_ok"
    /\ msg.conn # k
    /\ lst' = [lst EXCEPT ![k] = "finished"]
    /\ UNCHANGED <<websocket, nConns, conn, msg>>
    /\ UNCHANGED clientVars
    /\ UNCHANGED callVars
    /\ UNCHANGED httpVars
    /\ UNCHANGED subVars

\* ConnectionClosed is raised into the loop (lines 249-252): the task sleeps
ListenerLost(k) ==
    /\ lst[k] = "reading"
    /\ conn[k] = "closed_err"
    /\ msg.conn # k
    /\ lst' = [lst EXCEPT ![k] = "sleeping"]
    /\ UNCHANGED <<websocket, nConns, conn, msg>>
    /\ UNCHANGED clientVars
    /\ UNCHANGED callVars
    /\ UNCHANGED httpVars
    /\ UNCHANGED subVars

\* asyncio.sleep(5) is over: connect_websocket is called (line 253) and awaits
\* the handshake
SleepOver(k) ==
    /\ lst[k] = "sleeping"
    /\ lst' = [lst EXCEPT ![k] = "connecting"]
    /\ UNCHANGED <<websocket, nConns, conn, msg>>
    /\ UNCHANGED clientVars
    /\ UNCHANGED callVars
    /\ UNCHANGED httpVars
    /\ UNCHANGED subVars

\* The listener's state once its connect_websocket call has failed: the
\* exception is swallowed (lines 233-234), line 253 returns and the task ends
AfterFailedReconnect == "gave_up"

\* The reconnect succeeds (lines 227-231): a new listener task is created and
\* this one ends
ReconnectOk(k) ==
    /\ lst[k] = "connecting"
    /\ ConnectOk
    /\ lst' = [lst EXCEPT ![k] = "handed_over", ![nConns + 1] = "created"]
    /\ UNCHANGED msg
    /\ UNCHANGED clientVars
    /\ UNCHANGED callVars
    /\ UNCHANGED httpVars
    /\ UNCHANGED subVars

\* The reconnect fails
ReconnectFail(k) ==
    /\ lst[k] = "connecting"
    /\ lst' = [lst EXCEPT ![k] = AfterFailedReconnect]
    /\ UNCHANGED <<websocket, nConns, conn, msg>>
    /\ UNCHANGED clientVars
    /\ UNCHANGED callVars
    /\ UNCHANGED httpVars
    /\ UNCHANGED subVars

\* ------------------------------------------------------------------ send_websocket
\* The guard of lines 278-279
NotConnected == websocket = None

\* send_websocket with no connection: raises "WebSocket not connected"
SendWebsocketRefused(c) ==
    /\ pc[c] = "idle"
    /\ NotConnected
    /\ pc' = [pc EXCEPT ![c] = "raised_not_connected"]
    /\ UNCHANGED <<message_handlers, callId, future, wire, msg>>
    /\ UNCHANGED clientVars
    /\ UNCHANGED connVars
    /\ UNCHANGED httpVars
    /\ UNCHANGED subVars

\* send_websocket up to its first suspension (lines 278-301): the identifier i
\* is generated, the future's set_result is stored under it, and the call frame
\* is written to self.websocket. websocket.send raises ConnectionClosed on a
\* connection that is no longer open, and that exception leaves send_websocket;
\* otherwise the caller suspends in wait_for.
SendWebsocket(c, i) ==
    /\ pc[c] = "idle"
    /\ ~NotConnected
    /\ callId' = [callId EXCEPT ![c] = i]
    /\ future' = [future EXCEPT ![c] = Pending]
    /\ message_handlers' = StoreHandler(message_handlers, i, c)
    /\ IF conn[websocket] = "open"
       THEN /\ wire' = [wire EXCEPT ![websocket] = @ \cup {i}]
            /\ pc' = [pc EXCEPT ![c] = "waiting"]
       ELSE /\ wire' = wire
            /\ pc' = [pc EXCEPT ![c] = "raised_send"]
    /\ UNCHANGED msg
    /\ UNCHANGED clientVars
    /\ UNCHANGED connVars
    /\ UNCHANGED httpVars
    /\ UNCHANGED subVars

\* wait_for returns the future's result to the caller (lines 301-302)
Return(c) ==
    /\ pc[c] = "waiting"
    /\ future[c].st = "done"
    /\ pc' = [pc EXCEPT ![c] = "returned"]
    /\ UNCHANGED <<message_handlers, callId, future, wire, msg>>
    /\ UNCHANGED clientVars
    /\ UNCHANGED connVars
    /\ UNCHANGED httpVars
    /\ UNCHANGED subVars

\* The 10 s of wait_for are over (line 301) and the caller has not resumed
\* since: wait_for cancels the future if it is still pending. When the future
\* was completed in the same turn of the event loop, asyncio up to 3.11 returns
\* its result (Return) and asyncio from 3.12 on still raises TimeoutError into
\* the caller.
Timeout(c) ==
    /\ pc[c] = "waiting"
    /\ future' = [future EXCEPT ![c] = IF @ = Pending THEN Cancelled ELSE @]
    /\ pc' = [pc EXCEPT ![c] = "expired"]
    /\ UNCHANGED <<message_handlers, callId, wire, msg>>
    /\ UNCHANGED clientVars
    /\ UNCHANGED connVars
    /\ UNCHANGED httpVars
    /\ UNCHANGED subVars

\* The caller resumes with TimeoutError (lines 303-305): it pops its identifier
\* and raises "WebSocket call timeout"
TimeoutRaise(c) ==
    /\ pc[c] = "expired"
    /\ message_handlers' = PopHandlerDefault(message_handlers, callId[c])
    /\ pc' = [pc EXCEPT ![c] = "raised_timeout"]
    /\ UNCHANGED <<callId, future, wire, msg>>
    /\ UNCHANGED clientVars
    /\ UNCHANGED connVars
    /\ UNCHANGED httpVars
    /\ UNCHANGED subVars

\* The caller's task is cancelled while it waits: wait_for cancels the future
\* if it is still pending, and CancelledError, which "except
\* asyncio.TimeoutError" does not catch, leaves send_websocket
CancelCaller(c) ==
    /\ pc[c] = "waiting"
    /\ future' = [future EXCEPT ![c] = IF @ = Pending THEN Cancelled ELSE @]
    /\ pc' = [pc EXCEPT ![c] = "cancelled"]
    /\ UNCHANGED <<message_handlers, callId, wire, msg>>
    /\ UNCHANGED clientVars
    /\ UNCHANGED connVars
    /\ UNCHANGED httpVars
    /\ UNCHANGED subVars

\* ------------------------------------------------------------------ close
\* unregister (lines 97-111) with self.session as given: on None the attribute
\* access raises, which is re-raised; otherwise the DELETE request is sent
UnregisterRaises(sess) == sess = "None"

\* DELETE requests sent once unregister() has run with the session it finds:
\* self.session.delete raises before anything is sent when there is no session
RequestsAfterUnregister(sess, n) == IF UnregisterRaises(sess) THEN n ELSE n + 1

\* close up to its first await (lines 319-320): the duplex connection is closed
\* with a normal close code
CloseStart ==
    /\ initPc = "done"
    /\ closePc = "idle"
    /\ websocket # None
    /\ conn' = [conn EXCEPT ![websocket] = IF @ = "open" THEN "closed_ok" ELSE @]
    /\ closePc' = "ws_closing"
    /\ UNCHANGED <<auto_register, session, registered, initPc>>
    /\ UNCHANGED <<websocket, nConns, lst, msg>>
    /\ UNCHANGED callVars
    /\ UNCHANGED httpVars
    /\ UNCHANGED subVars

\* close when there is no duplex connection (line 319 is false): it goes on
\* to close the session (lines 323-324)
CloseStartNoSocket ==
    /\ initPc = "done"
    /\ closePc = "idle"
    /\ websocket = None
    /\ closePc' = "session_closing"
    /\ UNCHANGED <<auto_register, session, registered, initPc, msg>>
    /\ UNCHANGED connVars
    /\ UNCHANGED callVars
    /\ UNCHANGED httpVars
    /\ UNCHANGED subVars

\* websocket.close() has returned (lines 321-324): self.websocket is set to
\* None, whatever it holds by now, and the session is being closed
CloseSocketClosed ==
    /\ closePc = "ws_closing"
    /\ websocket' = None
    /\ closePc' = "session_closing"
    /\ UNCHANGED <<auto_register, session, registered, initPc, msg>>
    /\ UNCHANGED <<nConns, conn, lst>>
    /\ UNCHANGED callVars
    /\ UNCHANGED httpVars
    /\ UNCHANGED subVars

\* session.close() has returned (lines 325-328): self.session is set to None,
\* and with auto_register unregister is called
CloseSessionClosed ==
    /\ closePc = "session_closing"
    /\ session' = "None"
    /\ closePc' = IF auto_register /\ UnregisterRaises("None") THEN "raised" ELSE "done"
    /\ registered' = IF auto_register /\ ~UnregisterRaises("None") THEN FALSE ELSE registered
    /\ UNCHANGED <<auto_register, initPc, msg>>
    /\ UNCHANGED connVars
    /\ UNCHANGED callVars
    /\ deleteSent' = IF auto_register THEN RequestsAfterUnregister("None", deleteSent) ELSE deleteSent
    /\ UNCHANGED <<unregPc, rpcPc, rpcSent, rpcReply, rpcValue>>
    /\ UNCHANGED subVars

\* ------------------------------------------------------------------ unregister
\* The application calls unregister() itself
UnregisterCall ==
    /\ unregPc = "idle"
    /\ deleteSent' = RequestsAfterUnregister(session, deleteSent)
    /\ unregPc' = IF UnregisterRaises(session) THEN "raised" ELSE "sent"
    /\ UNCHANGED <<rpcPc, rpcSent, rpcReply, rpcValue>>
    /\ UNCHANGED <<clientVars, connVars, callVars, msg, subVars>>

\* The broker answers the DELETE: 200 removes the registration, anything else
\* (another status, a network failure) makes unregister() raise
UnregisterReply(ok) ==
    /\ unregPc = "sent"
    /\ unregPc' = IF ok THEN "done" ELSE "raised"
    /\ registered' = IF ok THEN FALSE ELSE registered
    /\ UNCHANGED <<auto_register, session, initPc, closePc>>
    /\ UNCHANGED <<deleteSent, rpcPc, rpcSent, rpcReply, rpcValue>>
    /\ UNCHANGED <<connVars, callVars, msg, subVars>>

\* ------------------------------------------------------------------ call
\* A call that posts a failed request a second time
SentAfterReplyRetried(n, rep) == IF rep.status = 200 THEN n ELSE n + 1

\* Requests sent once the reply has been handled: every branch of call() leaves
\* the function, none posts again
SentAfterReply(n, rep) == n

\* call() returns normally only for a 200 reply whose body has a "result" key
ReplyReturns(rep) == rep.status = 200 /\ rep.result # Missing

\* call() without a session: self.session.post raises, nothing is sent
CallRefused(r) ==
    /\ rpcPc[r] = "idle"
    /\ session = "None"
    /\ rpcPc' = [rpcPc EXCEPT ![r] = "raised"]
    /\ UNCHANGED <<deleteSent, unregPc, rpcSent, rpcReply, rpcValue>>
    /\ UNCHANGED <<clientVars, connVars, callVars, msg, subVars>>

\* call() with a session: the POST /rpc goes out and the caller awaits the reply
CallPost(r) ==
    /\ rpcPc[r] = "idle"
    /\ session = "open"
    /\ rpcPc' = [rpcPc EXCEPT ![r] = "posted"]
    /\ rpcSent' = [rpcSent EXCEPT ![r] = @ + 1]
    /\ UNCHANGED <<deleteSent, unregPc, rpcReply, rpcValue>>
    /\ UNCHANGED <<clientVars, connVars, callVars, msg, subVars>>

\* The request is answered, or fails on the network
CallReply(r, rep) ==
    /\ rpcPc[r] = "posted"
    /\ rpcPc' = [rpcPc EXCEPT ![r] = "replied"]
    /\ rpcReply' = [rpcReply EXCEPT ![r] = rep]
    /\ UNCHANGED <<deleteSent, unregPc, rpcSent, rpcValue>>
    /\ UNCHANGED <<clientVars, connVars, callVars, msg, subVars>>

\* call() resumes with the outcome: returns result["result"] or raises
CallFinish(r) ==
    /\ rpcPc[r] = "replied"
    /\ rpcPc' = [rpcPc EXCEPT ![r] = IF ReplyReturns(rpcReply[r]) THEN "returned" ELSE "raised"]
    /\ rpcValue' = [rpcValue EXCEPT ![r] = IF ReplyReturns(rpcReply[r]) THEN rpcReply[r].result ELSE @]
    /\ rpcSent' = [rpcSent EXCEPT ![r] = SentAfterReply(@, rpcReply[r])]
    /\ UNCHANGED <<deleteSent, unregPc, rpcReply>>
    /\ UNCHANGED <<clientVars, connVars, callVars, msg, subVars>>

\* ------------------------------------------------------------------ subscribe
\* The connection a subscribe frame is written to: self.websocket.send is bound
\* when subscribe() builds the coroutine, not when the task runs
SendTarget(x) == subConn[x]

\* subscribe() with no connection object raises
SubscribeRefused(x) ==
    /\ subPc[x] = "idle"
    /\ NotConnected
    /\ subPc' = [subPc EXCEPT ![x] = "raised"]
    /\ UNCHANGED <<subConn, subs>>
    /\ UNCHANGED <<clientVars, connVars, callVars, msg, httpVars>>

\* subscribe() with a connection object: the send is handed to a new task and
\* subscribe() returns at once
Subscribe(x) ==
    /\ subPc[x] = "idle"
    /\ ~NotConnected
    /\ subPc' = [subPc EXCEPT ![x] = "scheduled"]
    /\ subConn' = [subConn EXCEPT ![x] = websocket]
    /\ UNCHANGED subs
    /\ UNCHANGED <<clientVars, connVars, callVars, msg, httpVars>>

\* The task runs: the frame is written if the connection is open; otherwise
\* send raises inside the task and nobody retrieves the exception
SubscribeSend(x) ==
    /\ subPc[x] = "scheduled"
    /\ LET k == SendTarget(x) IN
        /\ subPc' = [subPc EXCEPT ![x] = IF conn[k] = "open" THEN "sent" ELSE "failed"]
        /\ subs' = [subs EXCEPT ![k] = IF conn[k] = "open" THEN @ + 1 ELSE @]
    /\ UNCHANGED subConn
    /\ UNCHANGED <<clientVars, connVars, callVars, msg, httpVars>>

\* ------------------------------------------------------------------ specification
Next ==
    \/ InitStart
    \/ RegisterOk
    \/ RegisterFail
    \/ InitConnectOk
    \/ InitConnectFail
    \/ \E k \in Conns : \E f \in FramesOn(k) : ServerSend(k, f)
    \/ \E k \in Conns : ServerCloses(k)
    \/ \E k \in Conns : ChannelFails(k)
    \/ \E k \in Conns : ListenerStart(k)
    \/ \E k \in Conns : HandleFrame(k)
    \/ \E k \in Conns : ListenerEnds(k)
    \/ \E k \in Conns : ListenerLost(k)
    \/ \E k \in Conns : SleepOver(k)
    \/ \E k \in Conns : ReconnectOk(k)
    \/ \E k \in Conns : ReconnectFail(k)
    \/ \E c \in Calls : SendWebsocketRefused(c)
    \/ \E c \in Calls : \E i \in Ids : SendWebsocket(c, i)
    \/ \E c \in Calls : Return(c)
    \/ \E c \in Calls : Timeout(c)
    \/ \E c \in Calls : TimeoutRaise(c)
    \/ \E c \in Calls : CancelCaller(c)
    \/ CloseStart
    \/ CloseStartNoSocket
    \/ CloseSocketClosed
    \/ CloseSessionClosed

Spec == Init /\ [][Next]_vars

\* The same program under fair scheduling: a caller that can resume does, a
\* running timer fires, and the receive loop takes its next step
Fairness ==
    /\ \A c \in Calls : WF_vars(Return(c)) /\ WF_vars(Timeout(c)) /\ WF_vars(TimeoutRaise(c))
    /\ \A k \in Conns : /\ WF_vars(ListenerStart(k))
                        /\ WF_vars(HandleFrame(k))
                        /\ WF_vars(ListenerEnds(k))
                        /\ WF_vars(ListenerLost(k))
                        /\ WF_vars(SleepOver(k))
                        /\ WF_vars(ReconnectOk(k) \/ ReconnectFail(k))
    /\ WF_vars(CloseSocketClosed) /\ WF_vars(CloseSessionClosed)

SpecFair == Init /\ [][Next]_vars /\ Fairness

\* The request/reply side of the client with its life cycle: init, call,
\* unregister and close
NextHttp ==
    \/ InitStart
    \/ RegisterOk
    \/ RegisterFail
    \/ InitConnectOk
    \/ InitConnectFail
    \/ \E k \in Conns : ListenerStart(k)
    \/ \E k \in Conns : ListenerEnds(k)
    \/ UnregisterCall
    \/ \E ok \in BOOLEAN : UnregisterReply(ok)
    \/ \E r \in Rpcs : CallRefused(r)
    \/ \E r \in Rpcs : CallPost(r)
    \/ \E r \in Rpcs : \E rep \in Replies : CallReply(r, rep)
    \/ \E r \in Rpcs : CallFinish(r)
    \/ CloseStart
    \/ CloseStartNoSocket
    \/ CloseSocketClosed
    \/ CloseSessionClosed

SpecHttp == Init /\ [][NextHttp]_vars

\* The duplex connection with its losses, reconnects and close, and the
\* subscribe() calls made on it
NextSub ==
    \/ InitStart
    \/ RegisterOk
    \/ RegisterFail
    \/ InitConnectOk
    \/ InitConnectFail
    \/ \E k \in Conns : ServerCloses(k)
    \/ \E k \in Conns : ChannelFails(k)
    \/ \E k \in Conns : ListenerStart(k)
    \/ \E k \in Conns : ListenerEnds(k)
    \/ \E k \in Conns : ListenerLost(k)
    \/ \E k \in Conns : SleepOver(k)
    \/ \E k \in Conns : ReconnectOk(k)
    \/ \E k \in Conns : ReconnectFail(k)
    \/ \E x \in Subs : SubscribeRefused(x)
    \/ \E x \in Subs : Subscribe(x)
    \/ \E x \in Subs : SubscribeSend(x)
    \/ CloseStart
    \/ CloseStartNoSocket
    \/ CloseSocketClosed
    \/ CloseSessionClosed

SpecSub == Init /\ [][NextSub]_vars

\* ------------------------------------------------------------------ sanity
TypeOK ==
    /\ auto_register \in BOOLEAN
    /\ session \in {"None", "open"}
    /\ registered \in BOOLEAN
    /\ websocket \in {None} \cup Conns
    /\ nConns \in 0..MaxConns
    /\ conn \in [Conns -> {"unused", "open", "closed_ok", "closed_err"}]
    /\ lst \in [Conns -> {"none", "created", "no_socket", "reading", "finished",
                          "sleeping", "connecting", "handed_over", "gave_up", "crashed"}]
    /\ message_handlers \in [Ids -> {None} \cup Calls]
    /\ pc \in [Calls -> {"idle", "waiting", "expired", "returned", "raised_not_connected",
                         "raised_send", "raised_timeout", "cancelled"}]
    /\ callId \in [Calls -> {0} \cup Ids]
    /\ wire \in [Conns -> SUBSET Ids]
    /\ initPc \in {"idle", "registering", "connecting", "done", "raised"}
    /\ closePc \in {"idle", "ws_closing", "session_closing", "done", "raised"}
    /\ deleteSent \in 0..2
    /\ unregPc \in {"idle", "sent", "done", "raised"}
    /\ rpcPc \in [Rpcs -> {"idle", "posted", "replied", "returned", "raised"}]
    /\ rpcSent \in [Rpcs -> 0..1]
    /\ rpcReply \in [Rpcs -> Replies \cup {NoReply}]
    /\ rpcValue \in [Rpcs -> Values \cup {Missing}]
    /\ subPc \in [Subs -> {"idle", "raised", "scheduled", "sent", "failed"}]
    /\ subConn \in [Subs -> {None} \cup Conns]
    /\ subs \in [Conns -> 0..NumSubs]

\* A listener task that starts finds in self.websocket either None or the
\* connection it was created for: the connection a listener reads is its own
ListenerBinds == \A k \in Conns : lst[k] = "created" => websocket \in {None, k}

\* ------------------------------------------------------------------ vocabulary of the claims
\* The receive loop takes the frame in msg and handles it in this step
Handling == msg # NoMsg /\ msg' = NoMsg

\* No other call has generated c's identifier
DistinctId(c) == \A d \in Calls \ {c} : callId[d] # callId[c]

\* Caller c is suspended in wait_for and nothing has completed its future
AwaitingOutcome(c) == pc[c] = "waiting" /\ future[c] = Pending

\* C1: concurrent duplex calls with distinct identifiers are each resolved
\* exactly once, by the response frame that carries the call's own identifier
\* and with that frame's result, in whatever order the frames arrive: a future
\* is completed only while a response frame with its call's identifier is
\* handled, and with that frame's result; a completed future never changes; the
\* caller returns only a completed future's value; and a response frame for a
\* waiting call with a distinct identifier completes that call.
C1_Correlation ==
    [][\A c \in Calls :
        /\ future[c].st = "done" => future'[c] = future[c]
        /\ (future[c].st # "done" /\ future'[c].st = "done") =>
              /\ Handling
              /\ msg.type = "response"
              /\ msg.id = callId[c]
              /\ msg.payload = future'[c].val
        /\ (pc[c] # "returned" /\ pc'[c] = "returned") =>
              (future[c].st = "done" /\ future'[c] = future[c])
        /\ (/\ Handling
            /\ msg.type = "response"
            /\ msg.payload # Missing
            /\ msg.id = callId[c]
            /\ AwaitingOutcome(c)
            /\ DistinctId(c)) => future'[c] = Done(msg.payload)
      ]_vars

\* C1 witness: two calls with distinct identifiers are in flight together and
\* both have been resolved, with different results
C1_Witness ==
    \E c, d \in Calls :
        /\ c # d
        /\ callId[c] # callId[d]
        /\ pc[c] = "waiting" /\ pc[d] = "waiting"
        /\ future[c].st = "done" /\ future[d].st = "done"
        /\ future[c].val # future[d].val

\* C2: a duplex call that times out fails with the timeout error and its
\* identifier is then out of the table; a response frame with that identifier
\* handled after that (the identifier not registered again by another call) is
\* dropped: the table, every future, every caller and the receive loop stay as
\* they are.
C2_TimeoutThenLateResponse ==
    [][/\ \A c \in Calls :
            /\ pc[c] = "expired" => pc'[c] \in {"expired", "raised_timeout"}
            /\ (pc[c] = "expired" /\ pc'[c] = "raised_timeout") =>
                  ~HasHandler(message_handlers', callId[c])
       /\ (/\ Handling
           /\ msg.type = "response"
           /\ ~HasHandler(message_handlers, msg.id)
           /\ \E c \in Calls : pc[c] = "raised_timeout" /\ callId[c] = msg.id)
          => /\ UNCHANGED <<message_handlers, future, pc, callId>>
             /\ lst' = lst
             /\ lst[msg.conn] = "reading"
      ]_vars

\* C2 witness: a call has failed with the timeout error and a response frame
\* with its identifier is now in front of the running receive loop
C2_Witness ==
    \E c \in Calls :
        /\ pc[c] = "raised_timeout"
        /\ msg.type = "response"
        /\ msg.id = callId[c]
        /\ msg.payload # Missing
        /\ ~HasHandler(message_handlers, msg.id)
        /\ lst[msg.conn] = "reading"

\* The listener of connection k has seen the channel lost and no new
\* connection has replaced it yet
LossSeen(k) == lst[k] \in {"sleeping", "connecting"}

\* C3: when the duplex channel is lost with calls pending, all of them are
\* failed at the moment the client enters Disconnected: while the listener that
\* saw the loss sleeps or reconnects, no caller is still suspended on a future
\* that nothing has completed.
C3_PendingFailedOnLoss ==
    \A k \in Conns : LossSeen(k) => \A c \in Calls : ~AwaitingOutcome(c)

\* C4: after a channel loss on a client that has not been closed, every failed
\* reconnection attempt is followed by another one: when a listener's
\* reconnection attempt has failed, a later attempt is waiting or under way.
C4_RetryAfterFailedReconnect ==
    \A k \in Conns :
        (lst[k] = "gave_up" /\ closePc = "idle") =>
            \E j \in Conns : lst[j] \in {"sleeping", "connecting", "created", "reading"}

\* C5: once close() has been called, no duplex connection is opened and no
\* receive loop is started any more, in every interleaving with a channel loss
\* and the reconnect delay.
C5_NoReconnectAfterClose ==
    [][closePc # "idle" =>
          /\ nConns' = nConns
          /\ \A k \in Conns : lst'[k] = "created" => lst[k] = "created"
          /\ websocket' \in {websocket, None}
      ]_vars

\* C6: when close() has completed, no duplex call is left suspended and the
\* pending-call table is empty.
C6_CloseResolvesPending ==
    closePc = "done" =>
        /\ \A c \in Calls : ~AwaitingOutcome(c)
        /\ \A i \in Ids : ~HasHandler(message_handlers, i)

\* Caller c is still inside send_websocket, suspended
Suspended(c) == pc[c] \in {"waiting", "expired"}

\* C7: in every reachable state the pending-call table holds exactly the
\* identifiers of the calls whose caller is still suspended awaiting an outcome:
\* every entry is the entry of a suspended caller, stored under that caller's
\* identifier (so a call that has failed has left none), and every caller
\* awaiting an outcome under an identifier of its own has its entry.
C7_TableIsThePendingCalls ==
    /\ \A i \in Ids :
          HasHandler(message_handlers, i) =>
              (Suspended(message_handlers[i]) /\ callId[message_handlers[i]] = i)
    /\ \A c \in Calls :
          (AwaitingOutcome(c) /\ DistinctId(c)) => message_handlers[callId[c]] = c

\* The frames C8 lists: unparsable text, JSON that is not an object, an unknown
\* type, and a modules, response or error frame without its field
Malformed(m) ==
    \/ m.kind \in {"text", "nonobj"}
    \/ m.kind = "obj" /\ m.type = "other"
    \/ m.kind = "obj" /\ m.type \in {"modules", "response", "error"} /\ m.payload = Missing

\* C8: no inbound frame is fatal to the receive loop: after a malformed or
\* unknown frame has been handled, the loop that handled it is still reading.
C8_NoFrameIsFatal ==
    [][(Handling /\ Malformed(msg)) => lst'[msg.conn] = "reading"]_vars

\* The connection state is not Connected: there is no connection (before init,
\* after a failed handshake, after close), or the listener of the connection
\* held has seen it lost and no reconnect has succeeded
Disconnected ==
    \/ websocket = None
    \/ lst[websocket] \in {"sleeping", "connecting", "gave_up"}

\* C9: a duplex call issued while the connection state is not Connected fails
\* with the not-connected error, writes no frame and registers no identifier.
C9_RefusedWhenNotConnected ==
    [][\A c \in Calls :
          (pc[c] = "idle" /\ pc'[c] # "idle" /\ Disconnected) =>
              /\ pc'[c] = "raised_not_connected"
              /\ UNCHANGED <<message_handlers, wire>>
      ]_vars

\* C10: for one identifier only the first of response arrival and timeout has
\* effect: a response frame handled after the call's timeout has fired, the
\* caller not having removed its entry yet, completes nothing and raises
\* nothing: the futures are unchanged and the receive loop is still reading.
C10_FirstOfResponseAndTimeout ==
    [][(/\ Handling
        /\ msg.type = "response"
        /\ msg.payload # Missing
        /\ \E c \in Calls :
              /\ pc[c] = "expired"
              /\ callId[c] = msg.id
              /\ message_handlers[msg.id] = c)
       => (future' = future /\ lst'[msg.conn] = "reading")
      ]_vars


\* ------------------------------------------------------------------ C11
\* C11: an inbound error frame whose identifier is the identifier of a call
\* still awaiting its outcome is dispatched through the table like a response:
\* handling it removes that call's entry and fails the call, so its future
\* does not stay pending.
C11_ErrorFrameFailsCall ==
    [][\A c \in Calls :
          (/\ Handling
           /\ msg.kind = "obj" /\ msg.type = "error" /\ msg.payload # Missing
           /\ AwaitingOutcome(c) /\ DistinctId(c)
           /\ msg.id = callId[c]
           /\ HasHandler(message_handlers, msg.id) /\ message_handlers[msg.id] = c)
          => (/\ ~HasHandler(message_handlers', msg.id)
              /\ future'[c] # Pending)]_vars

\* ------------------------------------------------------------------ C12
\* C12: close() closes the duplex channel, then the request/reply session, then
\* unregisters when auto-register is on; so the step that ends close() leaves
\* no connection object and no session behind and, with auto-register on,
\* sends the unregister request (DELETE /register/<module>) to the broker.
C12_CloseUnregisters ==
    [][(closePc = "session_closing" /\ closePc' # "session_closing")
          => (/\ websocket' = None
              /\ session' = "None"
              /\ auto_register => deleteSent' = deleteSent + 1)]_vars

\* ------------------------------------------------------------------ C13
\* C13: init() never returns successfully while the duplex channel is not
\* connected: once init() has returned and before anything else has touched
\* the connection (no close() yet, no reconnect), the client holds a
\* connection that the handshake established.
C13_InitRequiresDuplex ==
    (initPc = "done" /\ closePc = "idle") => (websocket # None /\ nConns >= 1)

\* ------------------------------------------------------------------ C14
\* C14: under fair scheduling every pending call is eventually removed: an
\* entry registered for a call eventually leaves the table and by then the
\* caller has its result or its error, whatever happens to the connection
\* (a caller that the application cancels itself is left out of the promise).
C14_EveryCallEnds ==
    \A c \in Calls : \A i \in Ids :
        (message_handlers[i] = c)
            ~> \/ message_handlers[i] # c /\ pc[c] \notin {"waiting", "expired"}
               \/ pc[c] = "cancelled"

\* ------------------------------------------------------------------ C15
\* The client holds an open connection that a reconnect made
Reconnected ==
    /\ ~NotConnected
    /\ conn[websocket] = "open"
    /\ \E k \in Conns : lst[k] = "handed_over" /\ websocket = k + 1

\* C15: after the connection was lost and the listener has reconnected, a newly
\* issued duplex call works end to end. The reconnect leaves the client holding
\* the new open connection, with nothing written to it yet and a new receive
\* loop created; a call issued then is written to that connection and to no
\* other and is registered; and a response read from that connection for the
\* call resolves it with that frame's result and removes its entry.
C15_CallAfterReconnect ==
    [][/\ \A k \in Conns :
            (lst[k] # "handed_over" /\ lst'[k] = "handed_over")
            => (/\ websocket' = k + 1
                /\ conn'[k + 1] = "open"
                /\ lst'[k + 1] = "created"
                /\ wire'[k + 1] = {})
       /\ \A c \in Calls :
            (Reconnected /\ pc[c] = "idle" /\ pc'[c] # "idle")
            => (/\ pc'[c] = "waiting"
                /\ callId'[c] \in wire'[websocket]
                /\ \A j \in Conns \ {websocket} : wire'[j] = wire[j]
                /\ message_handlers'[callId'[c]] = c)
       /\ \A c \in Calls :
            (/\ Reconnected
             /\ Handling
             /\ msg.conn = websocket
             /\ msg.kind = "obj" /\ msg.type = "response" /\ msg.payload # Missing
             /\ AwaitingOutcome(c)
             /\ msg.id = callId[c]
             /\ message_handlers[msg.id] = c)
            => (/\ future'[c] = Done(msg.payload)
                /\ ~HasHandler(message_handlers', msg.id))]_vars

\* A call written only to the connection made by the reconnect has returned
C15_Witness ==
    \E c \in Calls :
        /\ lst[1] = "handed_over"
        /\ pc[c] = "returned"
        /\ future[c].st = "done"
        /\ callId[c] \in wire[2]
        /\ callId[c] \notin wire[1]

\* ------------------------------------------------------------------ C16
\* C16: subscriptions are not replayed on reconnect and each subscribe() call
\* writes exactly one subscribe frame. A subscribe frame is written only by the
\* task of a subscribe() call, one frame, on the connection the call was made
\* on; a reconnect writes nothing on the new connection; the task of every
\* subscribe() call that returned writes its frame when it runs; and
\* subscribe() returns at once without touching the pending-call table.
C16_SubscribeOnceNoReplay ==
    [][/\ \A k \in Conns :
            subs'[k] # subs[k]
            => \E x \in Subs : /\ subPc[x] = "scheduled" /\ subPc'[x] = "sent"
                               /\ subConn[x] = k
                               /\ subs'[k] = subs[k] + 1
       /\ \A k \in Conns :
            (lst[k] # "handed_over" /\ lst'[k] = "handed_over")
            => (subs' = subs /\ subs'[k + 1] = 0)
       /\ \A x \in Subs :
            (subPc[x] = "scheduled" /\ subPc'[x] # "scheduled")
            => (subPc'[x] = "sent" /\ subs'[subConn[x]] = subs[subConn[x]] + 1)
       /\ \A x \in Subs :
            (subPc[x] = "idle" /\ subPc'[x] # "idle")
            => (/\ message_handlers' = message_handlers
                /\ subs' = subs
                /\ subPc'[x] = "scheduled" => subConn'[x] = websocket)]_vars

\* ------------------------------------------------------------------ C17
\* C17: an entry of the pending-call table is never overwritten: a call that
\* arrives with an identifier already in the table fails instead of waiting,
\* and the entry still names the caller it named before.
C17_NoOverwrite ==
    [][\A i \in Ids :
          HasHandler(message_handlers, i)
          => (/\ HasHandler(message_handlers', i) => message_handlers'[i] = message_handlers[i]
              /\ \A c \in Calls :
                    (pc[c] = "idle" /\ pc'[c] # "idle" /\ callId'[c] = i)
                    => pc'[c] \notin {"waiting", "returned"})]_vars

\* ------------------------------------------------------------------ C18
\* C18: call() is a single round trip with no retry. A POST /rpc is sent only
\* by call() starting, one request; handling the reply sends nothing more;
\* call() returns exactly when the reply is a success reply carrying a result,
\* and then returns that result unchanged; on any other reply or a network
\* failure it raises. So a finished call has sent at most one request, and
\* exactly one if it got a reply.
C18_SingleRoundTrip ==
    [][\A r \in Rpcs :
          /\ rpcSent'[r] # rpcSent[r]
             => (rpcPc[r] = "idle" /\ rpcPc'[r] = "posted" /\ rpcSent'[r] = rpcSent[r] + 1)
          /\ (rpcPc[r] = "idle" /\ rpcPc'[r] = "posted") => rpcSent'[r] = 1
          /\ (rpcPc[r] = "replied" /\ rpcPc'[r] # "replied")
             => (/\ rpcSent'[r] = 1
                 /\ IF rpcReply[r].status = 200 /\ rpcReply[r].result # Missing
                    THEN rpcPc'[r] = "returned" /\ rpcValue'[r] = rpcReply[r].result
                    ELSE rpcPc'[r] = "raised" /\ rpcValue'[r] = Missing)
          /\ rpcPc[r] \in {"returned", "raised"}
             => (rpcPc'[r] = rpcPc[r] /\ rpcSent'[r] = rpcSent[r] /\ rpcValue'[r] = rpcValue[r])]_vars

\* One call has returned the result of its reply and another has raised on a
\* non-success reply, each after one request
C18_Witness ==
    \E r, q \in Rpcs :
        /\ rpcPc[r] = "returned" /\ rpcValue[r] = rpcReply[r].result /\ rpcSent[r] = 1
        /\ rpcPc[q] = "raised" /\ rpcReply[q].status = 500 /\ rpcSent[q] = 1

\* ------------------------------------------------------------------ C19
\* The receive loops that are reading from a connection that is still open
Reading == {k \in Conns : lst[k] = "reading" /\ conn[k] = "open"}

\* C19: at any time at most one receive loop is reading from a duplex
\* connection, and the connection it reads from is the one the client holds in
\* websocket.
C19_OneReaderOnHeldConnection ==
    /\ Cardinality({k \in Conns : lst[k] = "reading"}) <= 1
    /\ \A k \in Reading : websocket = k

\* ------------------------------------------------------------------ C20
\* C20: handling an inbound frame changes the pending-call table only by
\* removing the entry whose identifier is the frame's, and only for a response
\* frame; a response with an unknown identifier and every other frame leave the
\* table unchanged, and in every case the future of every call other than the
\* one the removed entry named is unchanged.
C20_FrameEffectOnTable ==
    [][Handling
        => /\ IF msg.kind = "obj" /\ msg.type = "response" /\ HasHandler(message_handlers, msg.id)
              THEN message_handlers' = [message_handlers EXCEPT ![msg.id] = None]
              ELSE message_handlers' = message_handlers /\ future' = future
           /\ \A c \in Calls :
                ~(HasHandler(message_handlers, msg.id) /\ message_handlers[msg.id] = c)
                => future'[c] = future[c]]_vars

\* A response removed one call's entry and resolved it while another call's
\* entry and pending future are still in place
C20_Witness ==
    \E c, d \in Calls :
        /\ c # d /\ callId[c] # callId[d]
        /\ pc[c] = "waiting" /\ future[c].st = "done"
        /\ ~HasHandler(message_handlers, callId[c])
        /\ pc[d] = "waiting" /\ future[d] = Pending
        /\ message_handlers[callId[d]] = d

====
